---- MODULE Spec2Model ----
(***************************************************************************)
(* Pinochle score keeper: the Game / GameHand models and the hand-entry    *)
(* flow of GameController (bid -> meld -> tricks -> submit, throw-in,      *)
(* shoot-the-moon, edit of a past hand).                                   *)
(*                                                                         *)
(* Players are identified by their seat 1..gameType (the order of          *)
(* game.players); game.scores is kept in the same order, so scores[p] is   *)
(* the `score` field of the entry whose playerId is p.  null is Null.      *)
(***************************************************************************)
EXTENDS Integers, Sequences, FiniteSets, TLC

VARIABLES gameType, hands, scores, dealerIndex, pendingHand, teamAssignments, winner, pc,
          endTime, winnerId, winnerName, currentGame, errors, restored,
          phase, entered, stats, tableSetup, players

vars == <<gameType, hands, scores, dealerIndex, pendingHand, teamAssignments, winner, pc,
          endTime, winnerId, winnerName, currentGame, errors, restored,
          phase, entered, stats, tableSetup, players>>

\* the hand-entry cards: which one is shown, and what their fields hold
handEntry == <<phase, entered>>

\* the table setup before the game, and the players list the game was started with
setup == <<tableSetup, players>>

\* what the last call of validate and of fromData returned
returned == <<errors, restored>>

\* the end-of-game fields of the Game and the controller's reference to the game
endState == <<endTime, winnerId, winnerName, currentGame>>

Null == -1

\* ---------------------------------------------------------------- bounds
MaxHands == 2
\* how many times the end of the game is confirmed
MaxEnds == 1
\* how many players are registered
RosterSize == 5

\* ------------------------------------------------------- program constants
GameTypes == {2, 3, 4}

MinBid2 == 150

MinBid34 == 250

MaxBid == 2000

MaxMeld == 1000

MaxTricks == 25

TargetScore2 == 1000

TargetScore34 == 1500

MoonScore == 500

getMinBid(playerCount) == IF playerCount = 2 THEN MinBid2 ELSE MinBid34

\* ------------------------------------------------------- values typed in
Players == 1..gameType

\* the player seated after p
NextSeat(p) == (p % gameType) + 1

\* the seat chosen in the bidder select: the player after the dealer wins the bid
BidderInputs == {NextSeat(dealerIndex + 1)}

\* the bid typed in: one below the minimum, one that takes more than 25 tricks
\* to make unless the bidder melds more than 20, and one above the moon score
BidInputs == {getMinBid(gameType) - 10, (MaxTricks + 3) * 10, MoonScore + 10}

\* the meld typed in: none, one off the tens, one nines of trump can make, the largest
MeldInputs == {0, 15, 20, MaxMeld}

\* with a meld of 20 the bidder makes the minimum bid exactly, without it he is set
TricksTaken == (getMinBid(gameType) - 20) \div 10

\* the meld fields: nobody declares meld, or everybody declares m
MeldEntries == {[p \in Players |-> m] : m \in MeldInputs}

\* the trick fields: player `taker` took TricksTaken tricks, the others none
TricksBy(taker) == [p \in Players |-> IF p = taker THEN TricksTaken ELSE 0]

\* the bidder took the tricks, or the player after him did
TrickEntries(bidderId) == {TricksBy(bidderId), TricksBy(NextSeat(bidderId))}

\* both took TricksTaken: more than MaxTricks in total
OverTricks(bidderId) ==
    [p \in Players |-> IF p \in {bidderId, NextSeat(bidderId)} THEN TricksTaken ELSE 0]

NinesInputs == {{}, Players}

\* one player is credited with more tricks than there are
BadTricks(bidderId) == [p \in Players |-> IF p = bidderId THEN MaxTricks + 1 ELSE 0]

\* the trick fields as typed before Submit
SubmitTricks(bidderId) == TrickEntries(bidderId) \cup {OverTricks(bidderId), BadTricks(bidderId)}

\* what is typed into the edit form of a hand won by bidderId: a correction to
\* the minimum bid made with meld, the bid cleared to 0, and full trick counts
\* entered for two players
EditEntries(bidderId) ==
    {[bid |-> getMinBid(gameType), meld |-> [p \in Players |-> 20], tricks |-> TricksBy(bidderId)],
     [bid |-> 0, meld |-> [p \in Players |-> 0], tricks |-> TricksBy(NextSeat(bidderId))],
     [bid |-> getMinBid(gameType), meld |-> [p \in Players |-> 0], tricks |-> OverTricks(bidderId)]}

\* ------------------------------------------------------------- GameHand
EmptyMap == [p \in {} |-> 0]

\* map[playerId] || 0
Get(map, p) == IF p \in DOMAIN map THEN map[p] ELSE 0

\* map[playerId] = value
Put(map, p, v) == [q \in (DOMAIN map) \cup {p} |-> IF q = p THEN v ELSE map[q]]

\* a null id or name
NoId == <<>>

\* the id a player has in game.scores and in winnerId, and the player's name
PlayerId(p) == <<"player", p>>

PlayerName(p) == <<"name", p>>

\* new Date(): instants are counted in hands played
Clock == Len(hands) + 1

GameHand(handNumber, dealerId, dealerName) ==
    [handNumber |-> handNumber, winningBid |-> Null, bidderId |-> Null, bidderName |-> NoId,
     playerMeld |-> EmptyMap, playerScores |-> EmptyMap, timestamp |-> Clock,
     dealerId |-> dealerId, dealerName |-> dealerName, thrownIn |-> FALSE]

setWinningBid(hand, bid, bidderId, bidderName) ==
    [hand EXCEPT !.winningBid = bid, !.bidderId = bidderId, !.bidderName = bidderName]

setPlayerMeld(hand, p, meld) ==
    [hand EXCEPT !.playerMeld = Put(hand.playerMeld, p, meld)]

setPlayerScore(hand, p, score) ==
    [hand EXCEPT !.playerScores = Put(hand.playerScores, p, score)]

throwIn(hand) ==
    [hand EXCEPT !.thrownIn = TRUE, !.winningBid = Null, !.bidderId = Null,
                 !.bidderName = NoId, !.playerMeld = EmptyMap, !.playerScores = EmptyMap]

\* an isBidderSet that takes a bidder without meld and score entries as not set
isBidderSetNeedsEntries(hand) ==
    IF hand.bidderId = Null \/ hand.winningBid = Null \/ hand.winningBid = 0
    THEN FALSE
    ELSE /\ hand.bidderId \in (DOMAIN hand.playerMeld) \cup (DOMAIN hand.playerScores)
         /\ Get(hand.playerMeld, hand.bidderId) + Get(hand.playerScores, hand.bidderId)
               < hand.winningBid

\* isBidderSet with <= for <: meeting the bid exactly counts as set
isBidderSetOrEqual(hand) ==
    IF hand.bidderId = Null \/ hand.winningBid = Null \/ hand.winningBid = 0
    THEN FALSE
    ELSE Get(hand.playerMeld, hand.bidderId) + Get(hand.playerScores, hand.bidderId)
            <= hand.winningBid

\* !bidderId and !winningBid are true of null and of 0
isBidderSet(hand) ==
    IF hand.bidderId = Null \/ hand.winningBid = Null \/ hand.winningBid = 0
    THEN FALSE
    ELSE Get(hand.playerMeld, hand.bidderId) + Get(hand.playerScores, hand.bidderId)
            < hand.winningBid

\* ----------------------------------------------------------------- Game
\* ScoreHand where a set bidder keeps his meld and tricks and loses the bid
ScoreHandSetKeepsPoints(sc, hand) ==
    IF hand.thrownIn THEN sc
    ELSE [p \in DOMAIN sc |->
            sc[p] + Get(hand.playerMeld, p) + Get(hand.playerScores, p)
                  - (IF isBidderSet(hand) /\ p = hand.bidderId THEN hand.winningBid ELSE 0)]

\* ScoreHand where a bidder who made the bid is credited the bid as well
ScoreHandAddsBid(sc, hand) ==
    IF hand.thrownIn THEN sc
    ELSE IF isBidderSet(hand)
         THEN [p \in DOMAIN sc |->
                 IF p = hand.bidderId
                 THEN sc[p] - hand.winningBid
                 ELSE sc[p] + Get(hand.playerMeld, p) + Get(hand.playerScores, p)]
         ELSE [p \in DOMAIN sc |->
                 sc[p] + Get(hand.playerMeld, p) + Get(hand.playerScores, p)
                       + (IF p = hand.bidderId /\ hand.winningBid # Null
                          THEN hand.winningBid ELSE 0)]

\* ScoreHand without the skip of thrown-in hands
ScoreHandNoSkip(sc, hand) ==
    IF isBidderSet(hand)
    THEN [p \in DOMAIN sc |->
            IF p = hand.bidderId
            THEN sc[p] - hand.winningBid
            ELSE sc[p] + Get(hand.playerMeld, p) + Get(hand.playerScores, p)]
    ELSE [p \in DOMAIN sc |->
            sc[p] + Get(hand.playerMeld, p) + Get(hand.playerScores, p)]

\* one iteration of the hands.forEach of recalculateScores
ScoreHand(sc, hand) ==
    IF hand.thrownIn THEN sc
    ELSE IF isBidderSet(hand)
         THEN [p \in DOMAIN sc |->
                 IF p = hand.bidderId
                 THEN sc[p] - hand.winningBid
                 ELSE sc[p] + Get(hand.playerMeld, p) + Get(hand.playerScores, p)]
         ELSE [p \in DOMAIN sc |->
                 sc[p] + Get(hand.playerMeld, p) + Get(hand.playerScores, p)]

RECURSIVE ScoreHands(_, _)
ScoreHands(sc, hs) ==
    IF hs = <<>> THEN sc ELSE ScoreHands(ScoreHand(sc, Head(hs)), Tail(hs))

\* a recalculation that patches the totals with the last hand only
recalculateScoresAddsLast(sc, hs) ==
    IF hs = <<>> THEN sc ELSE ScoreHand(sc, hs[Len(hs)])

\* recalculateScores without the reset: the hands are scored on top of the cache
recalculateScoresNoReset(sc, hs) == ScoreHands(sc, hs)

\* reset every score to 0, then score every hand in order
recalculateScores(sc, hs) == ScoreHands([p \in DOMAIN sc |-> 0], hs)

\* advanceDealer without the wrap-around
advanceDealerNoWrap(idx, n) == idx + 1

advanceDealer(idx, n) == (idx + 1) % n

\* getNextHandNumber counting from 0
getNextHandNumberZeroBased(hs) == Len(hs)

getNextHandNumber(hs) == Len(hs) + 1

\* players[dealerIndex] (seat ids are 1-based)
getCurrentDealer(idx) == idx + 1

\* addHand: push, recalculateScores, advanceDealer
addHand(hand) ==
    /\ hands' = Append(hands, hand)
    /\ scores' = recalculateScores(scores, Append(hands, hand))
    /\ dealerIndex' = advanceDealer(dealerIndex, gameType)

\* const winningPlayers = this.scores.filter(s => s.score >= this.targetScore)
RECURSIVE winningPlayers(_, _, _)
winningPlayers(sc, target, p) ==
    IF p > Len(sc) THEN <<>>
    ELSE (IF sc[p] >= target THEN <<p>> ELSE <<>>) \o winningPlayers(sc, target, p + 1)

\* reduce that keeps the first player who reached the target
reduceFirstReached(sc, prev, rest) == prev

\* reduce with >= for >: of two equal scores the earlier player is kept
RECURSIVE reduceHighestKeepsFirst(_, _, _)
reduceHighestKeepsFirst(sc, prev, rest) ==
    IF rest = <<>> THEN prev
    ELSE reduceHighestKeepsFirst(sc, IF sc[prev] >= sc[Head(rest)] THEN prev ELSE Head(rest),
                                 Tail(rest))

\* winningPlayers.reduce((prev, current) => (prev.score > current.score) ? prev : current)
RECURSIVE reduceHighest(_, _, _)
reduceHighest(sc, prev, rest) ==
    IF rest = <<>> THEN prev
    ELSE reduceHighest(sc, IF sc[prev] > sc[Head(rest)] THEN prev ELSE Head(rest), Tail(rest))

NoWinner == [type |-> "none"]

NoTeams == [teamA |-> <<>>, teamB |-> <<>>]

TargetScore(gt) == IF gt = 2 THEN TargetScore2 ELSE TargetScore34

checkForWinnerIndividual(sc, target) ==
    LET wp == winningPlayers(sc, target, 1) IN
    IF Len(wp) > 0
    THEN LET w == reduceHighest(sc, Head(wp), Tail(wp)) IN
         [type |-> "player", playerId |-> w, score |-> sc[w]]
    ELSE NoWinner

RECURSIVE SumScores(_, _)
SumScores(sc, team) ==
    IF team = <<>> THEN 0 ELSE sc[Head(team)] + SumScores(sc, Tail(team))

getTeamScores(sc, gt, ta) ==
    IF gt # 4 \/ ta = NoTeams
    THEN [teamA |-> 0, teamB |-> 0]
    ELSE [teamA |-> SumScores(sc, ta.teamA), teamB |-> SumScores(sc, ta.teamB)]

\* checkForWinnerTeam that returns the first team found at or above the target
checkForWinnerTeamFirstReached(sc, gt, ta, target) ==
    LET ts == getTeamScores(sc, gt, ta) IN
    IF ts.teamA >= target
    THEN [type |-> "team", team |-> "teamA", score |-> ts.teamA]
    ELSE IF ts.teamB >= target
         THEN [type |-> "team", team |-> "teamB", score |-> ts.teamB]
         ELSE NoWinner

checkForWinnerTeam(sc, gt, ta, target) ==
    LET ts == getTeamScores(sc, gt, ta) IN
    IF ts.teamA >= target \/ ts.teamB >= target
    THEN IF ts.teamA >= ts.teamB
         THEN [type |-> "team", team |-> "teamA", score |-> ts.teamA]
         ELSE [type |-> "team", team |-> "teamB", score |-> ts.teamB]
    ELSE NoWinner

checkForWinner(sc, gt, ta, target) ==
    IF gt = 4 /\ ta # NoTeams
    THEN checkForWinnerTeam(sc, gt, ta, target)
    ELSE checkForWinnerIndividual(sc, target)

\* the ids and names confirmEndGame gives the teams
TeamId(team) == <<"team_", IF team = "teamA" THEN 1 ELSE 2>>

TeamName(team) == <<"Team", IF team = "teamA" THEN 1 ELSE 2>>

\* this.scores.reduce((prev, current) => (prev.score > current.score) ? prev : current)
leader(sc) == reduceHighest(sc, 1, [i \in 1..(Len(sc) - 1) |-> i + 1])

\* the winner confirmEndGame passes to endGame: the winning team, or else the
\* player with the highest score whether or not the target was reached
winnerOfGame(sc, gt, ta) ==
    LET gameWinner == checkForWinner(sc, gt, ta, TargetScore(gt)) IN
    IF gameWinner.type = "team"
    THEN [playerId |-> TeamId(gameWinner.team), name |-> TeamName(gameWinner.team)]
    ELSE [playerId |-> PlayerId(leader(sc)), name |-> PlayerName(leader(sc))]

\* how many times endGame has stamped endTime (the stamps are successive instants)
Ends == IF endTime = Null THEN 0 ELSE endTime

\* Game.endGame(winnerId, winnerName)
endGame(id, name) ==
    /\ endTime' = Ends + 1
    /\ winnerId' = id
    /\ winnerName' = name

\* --------------------------------------------------------- Validation
ValidationBid(bid, minBid) == bid >= minBid /\ bid % 10 = 0 /\ bid <= MaxBid

ValidationMeld(meld) == meld >= 0 /\ meld % 10 = 0 /\ meld <= MaxMeld

ValidationTricks(tricks) == tricks >= 0 /\ tricks <= MaxTricks

RECURSIVE SumMap(_, _)
SumMap(map, dom) ==
    IF dom = {} THEN 0
    ELSE LET p == CHOOSE q \in dom : TRUE IN map[p] + SumMap(map, dom \ {p})

ValidationTotalTricks(trickCounts) == SumMap(trickCounts, DOMAIN trickCounts) <= MaxTricks

\* the messages of GameHand.validate
MeldMessage(p) == <<"meld must be divisible by 10", PlayerName(p)>>

TricksMessage == <<"Total tricks cannot exceed 25">>

\* for (const playerId in this.playerMeld): one message per meld off the tens
RECURSIVE meldErrors(_, _)
meldErrors(hand, p) ==
    IF p > gameType THEN <<>>
    ELSE (IF p \in DOMAIN hand.playerMeld /\ hand.playerMeld[p] % 10 # 0
          THEN <<MeldMessage(p)>> ELSE <<>>) \o meldErrors(hand, p + 1)

\* a validate that already rejects a total of exactly 25 tricks
validateErrorsAtLimit(hand) ==
    meldErrors(hand, 1) \o
    (IF SumMap(hand.playerScores, DOMAIN hand.playerScores) >= MaxTricks * 10
     THEN <<TricksMessage>> ELSE <<>>)

\* GameHand.validate(players).errors; the sum of score / 10 exceeds 25 exactly
\* when the sum of the scores exceeds 250
validateErrors(hand) ==
    meldErrors(hand, 1) \o
    (IF SumMap(hand.playerScores, DOMAIN hand.playerScores) > MaxTricks * 10
     THEN <<TricksMessage>> ELSE <<>>)

\* GameHand.validate(players).valid
validate(hand) == Len(validateErrors(hand)) = 0

\* no hand (null)
NoHand == <<>>

\* GameHand.toData(): a plain object with every field of the hand
toData(hand) ==
    [handNumber |-> hand.handNumber, winningBid |-> hand.winningBid,
     bidderId |-> hand.bidderId, bidderName |-> hand.bidderName,
     playerMeld |-> hand.playerMeld, playerScores |-> hand.playerScores,
     timestamp |-> hand.timestamp, dealerId |-> hand.dealerId,
     dealerName |-> hand.dealerName, thrownIn |-> hand.thrownIn]

\* a fromData that leaves the timestamp the constructor set
fromDataFreshTimestamp(data) ==
    [GameHand(data.handNumber, data.dealerId, data.dealerName) EXCEPT
        !.winningBid = data.winningBid, !.bidderId = data.bidderId,
        !.bidderName = data.bidderName, !.playerMeld = data.playerMeld,
        !.playerScores = data.playerScores,
        !.thrownIn = data.thrownIn]

\* GameHand.fromData(data): a new GameHand whose other fields are then overwritten
fromData(data) ==
    [GameHand(data.handNumber, data.dealerId, data.dealerName) EXCEPT
        !.winningBid = data.winningBid, !.bidderId = data.bidderId,
        !.bidderName = data.bidderName, !.playerMeld = data.playerMeld,
        !.playerScores = data.playerScores, !.timestamp = data.timestamp,
        !.thrownIn = data.thrownIn]

\* new Game(players, gameType), constructed at instant 1: no hands, zero scores,
\* no end, and no teamAssignments field (NoTeams stands for its absence)
Game(gamePlayers, gt) ==
    [id |-> 1, gameType |-> gt, players |-> gamePlayers, hands |-> <<>>,
     scores |-> [p \in 1..Len(gamePlayers) |-> 0], startTime |-> 1, endTime |-> Null,
     targetScore |-> TargetScore(gt), dealerIndex |-> 0,
     winnerId |-> NoId, winnerName |-> NoId, teamAssignments |-> NoTeams]

\* game.toData(): the eleven fields it lists
GameToData(game) ==
    [id |-> game.id, gameType |-> game.gameType, players |-> game.players,
     hands |-> [k \in 1..Len(game.hands) |-> toData(game.hands[k])],
     scores |-> game.scores, startTime |-> game.startTime, endTime |-> game.endTime,
     targetScore |-> game.targetScore, dealerIndex |-> game.dealerIndex,
     winnerId |-> game.winnerId, winnerName |-> game.winnerName]

\* Game.fromData(data): a new Game whose fields are then overwritten from data
GameFromData(data) ==
    [Game(data.players, data.gameType) EXCEPT
        !.id = data.id,
        !.hands = [k \in 1..Len(data.hands) |-> fromData(data.hands[k])],
        !.scores = data.scores, !.startTime = data.startTime, !.endTime = data.endTime,
        !.targetScore = data.targetScore, !.dealerIndex = data.dealerIndex,
        !.winnerId = data.winnerId, !.winnerName = data.winnerName]

\* ------------------------------------------------------ GameController
\* this.pendingHand = null
NoPending == [winningBid |-> Null, bidderId |-> Null, bidderName |-> NoId]

\* whether playerId is on the bidder's team (4-player games with teams only)
isPlayerBidderTeammate(playerId, bidderId) ==
    IF gameType # 4 \/ teamAssignments = NoTeams THEN FALSE
    ELSE LET bidderOnTeamA == \E i \in DOMAIN teamAssignments.teamA : teamAssignments.teamA[i] = bidderId
             playerOnTeamA == \E i \in DOMAIN teamAssignments.teamA : teamAssignments.teamA[i] = playerId
         IN bidderOnTeamA = playerOnTeamA

\* toggleNinesCheckbox: the checkbox shows only for a meld nines of trump can make
ninesShown(meld) == IF gameType = 2 THEN meld = 10 ELSE (meld = 10 \/ meld = 20)

\* ninesCheckbox?.checked || false: the box exists only for players who are neither
\* the bidder nor the bidder's teammate, and is unchecked whenever it is hidden
ninesOnlyChecked(p, bidderId, meld, nines) ==
    /\ p \in nines
    /\ p # bidderId
    /\ ~isPlayerBidderTeammate(p, bidderId)
    /\ ninesShown(meld)

\* a meld safety rule that knows no nines of trump
finalMeldWithoutNines(p, bidderId, meld, tricks, ninesOnly) ==
    IF p # bidderId /\ meld > 0 /\ tricks < 1 THEN 0 ELSE meld

\* a submitHand without the meld safety rule
finalMeldAsDeclared(p, bidderId, meld, tricks, ninesOnly) == meld

\* meld safety rule of submitHand for one player
finalMeld(p, bidderId, meld, tricks, ninesOnly) ==
    IF p # bidderId /\ meld > 0
    THEN IF (meld = 10 \/ meld = 20) /\ ninesOnly THEN meld
         ELSE IF tricks < 1 THEN 0 ELSE meld
    ELSE meld

\* new GameHand(getNextHandNumber(), dealer.id, dealer.name) with the pending bid
PendingGameHand ==
    setWinningBid(GameHand(getNextHandNumber(hands), getCurrentDealer(dealerIndex),
                           PlayerName(getCurrentDealer(dealerIndex))),
                  pendingHand.winningBid, pendingHand.bidderId, pendingHand.bidderName)

\* the loop of submitHand over the players from seat p on, past its validations
RECURSIVE CollectHand(_, _, _, _, _)
CollectHand(hand, p, meld, tricks, nines) ==
    IF p > gameType THEN hand
    ELSE CollectHand(
            setPlayerScore(
                setPlayerMeld(hand, p,
                    finalMeld(p, pendingHand.bidderId, meld[p], tricks[p],
                              ninesOnlyChecked(p, pendingHand.bidderId, meld[p], nines))),
                p, tricks[p] * 10),
            p + 1, meld, tricks, nines)

\* the hand submitHand builds from the pending bid and the inputs
SubmittedHand(meld, tricks, nines) == CollectHand(PendingGameHand, 1, meld, tricks, nines)

\* the loop of shotTheMoon: 500 and no meld for the bidder, meld only for the others
RECURSIVE CollectMoonHand(_, _, _)
CollectMoonHand(hand, p, meld) ==
    IF p > gameType THEN hand
    ELSE CollectMoonHand(
            IF p = pendingHand.bidderId
            THEN setPlayerScore(setPlayerMeld(hand, p, 0), p, MoonScore)
            ELSE setPlayerScore(setPlayerMeld(hand, p, meld[p]), p, 0),
            p + 1, meld)

\* the hand-entry fields as updateMeldScoreInputs renders them and
\* resetHandInputs leaves them
ZeroEntry ==
    [meld |-> [p \in Players |-> 0], ninesOnly |-> {}, tricks |-> [p \in Players |-> 0]]

\* a player who has not finished a game
NoStats == [gamesPlayed |-> 0, gamesWon |-> 0]

\* the table setup that started this game: players 1..gameType seated in order
SeatedTable ==
    [selected |-> Players, selectedPlayers |-> [p \in Players |-> p], gameType |-> gameType,
     tableArrangement |-> [position \in 0..(gameType - 1) |-> position + 1],
     shown |-> TRUE, startEnabled |-> TRUE]

\* the message of the catch block of confirmEndGame
FailedToEndGame == <<"Failed to end game", NoId>>

Init ==
    /\ gameType \in GameTypes
    /\ hands = <<>>
    /\ scores = [p \in 1..gameType |-> 0]
    /\ dealerIndex = 0
    /\ pendingHand = NoPending
    /\ teamAssignments = IF gameType = 4 THEN [teamA |-> <<1, 3>>, teamB |-> <<2, 4>>] ELSE NoTeams
    /\ winner = NoWinner
    /\ pc = "idle"
    /\ endTime = Null
    /\ winnerId = NoId
    /\ winnerName = NoId
    /\ currentGame = TRUE
    /\ errors = <<>>
    /\ restored = NoHand
    /\ phase = "bid"
    /\ entered = ZeroEntry
    /\ stats = [p \in 1..gameType |-> NoStats]
    /\ tableSetup = SeatedTable
    /\ players = [p \in 1..gameType |-> p]

\* updateGameInterface: back to the bid card, the meld and trick fields rendered anew
updateGameInterface == phase' = "bid" /\ entered' = ZeroEntry

\* nextToMeldPhase (Next on the bid card)
NextToMeldPhase ==
    /\ currentGame
    /\ phase = "bid"
    /\ Len(hands) < MaxHands
    /\ \E bid \in BidInputs, bidderId \in BidderInputs :
        /\ ValidationBid(bid, getMinBid(gameType))
        /\ pendingHand' = [winningBid |-> bid, bidderId |-> bidderId,
                         bidderName |-> PlayerName(bidderId)]
    /\ phase' = "meld"
    /\ entered' = ZeroEntry
    /\ errors' = <<>>
    /\ UNCHANGED <<gameType, hands, scores, dealerIndex, teamAssignments, winner, pc, endState,
                   restored, stats, setup>>

\* nextToScorePhase (Next on the meld card), after the meld fields were filled in
\* and the nines boxes ticked by the players in `nines`
NextToScorePhase ==
    /\ currentGame
    /\ pendingHand # NoPending
    /\ phase = "meld"
    /\ \E meld \in MeldEntries, nines \in NinesInputs :
        entered' = [entered EXCEPT
                       !.meld = meld,
                       !.ninesOnly = {p \in Players :
                                        ninesOnlyChecked(p, pendingHand.bidderId, meld[p], nines)}]
    /\ phase' = "score"
    /\ errors' = <<>>
    /\ UNCHANGED <<gameType, hands, scores, dealerIndex, pendingHand, teamAssignments, winner, pc,
                   endState, restored, stats, setup>>

\* a backToBidPhase that also drops the pending bid and moves the deal on
BackToBidPhaseDropsHand ==
    /\ currentGame
    /\ phase = "meld"
    /\ phase' = "bid"
    /\ pendingHand' = NoPending
    /\ dealerIndex' = advanceDealer(dealerIndex, gameType)
    /\ errors' = <<>>
    /\ UNCHANGED <<gameType, hands, scores, teamAssignments, winner, pc, endState,
                   restored, entered, stats, setup>>

\* backToBidPhase (Back on the meld card)
BackToBidPhase ==
    /\ currentGame
    /\ phase = "meld"
    /\ phase' = "bid"
    /\ errors' = <<>>
    /\ UNCHANGED <<gameType, hands, scores, dealerIndex, pendingHand, teamAssignments, winner, pc,
                   endState, restored, entered, stats, setup>>

\* backToMeldPhase (Back on the tricks card)
BackToMeldPhase ==
    /\ currentGame
    /\ pendingHand # NoPending
    /\ phase = "score"
    /\ phase' = "meld"
    /\ errors' = <<>>
    /\ UNCHANGED <<gameType, hands, scores, dealerIndex, pendingHand, teamAssignments, winner, pc,
                   endState, restored, entered, stats, setup>>

\* a checkGameEnd that ends the game as soon as there is a winner
checkGameEndEndsGame ==
    /\ winner' = checkForWinner(scores', gameType, teamAssignments, TargetScore(gameType))
    /\ IF winner' # NoWinner
       THEN /\ endGame(winnerOfGame(scores', gameType, teamAssignments).playerId,
                       winnerOfGame(scores', gameType, teamAssignments).name)
            /\ UNCHANGED currentGame
       ELSE UNCHANGED endState

\* checkGameEnd: announces a winner and offers the final score dialog, nothing more
checkGameEnd ==
    /\ winner' = checkForWinner(scores', gameType, teamAssignments, TargetScore(gameType))
    /\ UNCHANGED endState

\* the messages submitHand passes to notificationService.error
MeldError(p, meld) ==
    <<IF meld < 0 THEN "Meld cannot be negative"
      ELSE IF meld % 10 # 0 THEN "Meld must be divisible by 10"
      ELSE "Meld value is too high", PlayerName(p)>>

TricksError(p, tricks) ==
    <<IF tricks < 0 THEN "Tricks cannot be negative" ELSE "Tricks cannot exceed 25",
      PlayerName(p)>>

TotalTricksError == <<"Total tricks cannot exceed 25", NoId>>

\* the loop of submitHand from seat p on: it returns at the first field that
\* fails Validation.meld or Validation.tricks
RECURSIVE fieldErrors(_, _, _)
fieldErrors(p, meld, tricks) ==
    IF p > gameType THEN <<>>
    ELSE IF ~ValidationMeld(meld[p]) THEN <<MeldError(p, meld[p])>>
    ELSE IF ~ValidationTricks(tricks[p]) THEN <<TricksError(p, tricks[p])>>
    ELSE fieldErrors(p + 1, meld, tricks)

\* what submitHand reports: the first failing field, else the total of the
\* tricks, else the first message of hand.validate
submitErrors(hand, meld, tricks) ==
    IF Len(fieldErrors(1, meld, tricks)) > 0 THEN fieldErrors(1, meld, tricks)
    ELSE IF ~ValidationTotalTricks(tricks) THEN <<TotalTricksError>>
    ELSE IF ~validate(hand) THEN <<validateErrors(hand)[1]>>
    ELSE <<>>

\* a submitHand that reports the failure and records the hand all the same
SubmitHandRecordsRejected ==
    /\ currentGame
    /\ pendingHand # NoPending
    /\ phase = "score"
    /\ \E tricks \in SubmitTricks(pendingHand.bidderId) :
        LET hand == SubmittedHand(entered.meld, tricks, entered.ninesOnly) IN
        /\ errors' = submitErrors(hand, entered.meld, tricks)
        /\ addHand(hand)
        /\ pendingHand' = NoPending
        /\ updateGameInterface
        /\ checkGameEnd
    /\ UNCHANGED <<gameType, teamAssignments, pc, restored, stats, setup>>

\* submitHand (Submit on the tricks card), after the trick fields were filled in
SubmitHand ==
    /\ currentGame
    /\ pendingHand # NoPending
    /\ phase = "score"
    /\ \E tricks \in SubmitTricks(pendingHand.bidderId) :
        LET hand == SubmittedHand(entered.meld, tricks, entered.ninesOnly) IN
        /\ errors' = submitErrors(hand, entered.meld, tricks)
        /\ IF Len(errors') = 0
           THEN /\ addHand(hand)
                /\ pendingHand' = NoPending
                /\ updateGameInterface
                /\ checkGameEnd
           ELSE /\ entered' = [entered EXCEPT !.tricks = tricks]
                /\ UNCHANGED <<hands, scores, dealerIndex, pendingHand, winner, endState, phase>>
    /\ UNCHANGED <<gameType, teamAssignments, pc, restored, stats, setup>>

\* throwInHand (Throw in on the bid card)
ThrowInHand ==
    /\ currentGame
    /\ phase = "bid"
    /\ Len(hands) < MaxHands
    /\ addHand(throwIn(GameHand(getNextHandNumber(hands), getCurrentDealer(dealerIndex),
                             PlayerName(getCurrentDealer(dealerIndex)))))
    /\ pendingHand' = NoPending
    /\ updateGameInterface
    /\ errors' = <<>>
    /\ UNCHANGED <<gameType, teamAssignments, winner, pc, endState, restored, stats, setup>>

\* nextToScorePhase: the tricks the bidder needs after his meld, at least 1
tricksRequired(winningBid, meldValue) ==
    LET t == (winningBid - meldValue) \div 10 IN IF t < 1 THEN 1 ELSE t

\* nextToScorePhase shows the moon options, the shot-the-moon button among
\* them, only when more than 25 tricks are required
moonOptionsShown(winningBid, meldValue) == tricksRequired(winningBid, meldValue) > MaxTricks

\* shotTheMoon (Shot the moon on the tricks card)
ShotTheMoon ==
    /\ currentGame
    /\ pendingHand # NoPending
    /\ phase = "score"
    /\ moonOptionsShown(pendingHand.winningBid, entered.meld[pendingHand.bidderId])
    /\ addHand(CollectMoonHand(PendingGameHand, 1, entered.meld))
    /\ pendingHand' = NoPending
    /\ updateGameInterface
    /\ errors' = <<>>
    /\ UNCHANGED <<gameType, teamAssignments, winner, pc, endState, restored, stats, setup>>

\* the constraints of the edit form's number fields (min, step, max), which the
\* browser checks before the form's submit event reaches saveEditedScores
EditFormValid(entry) ==
    /\ entry.bid >= 0 /\ entry.bid % 10 = 0
    /\ \A p \in Players :
        /\ entry.meld[p] >= 0 /\ entry.meld[p] % 10 = 0
        /\ entry.tricks[p] >= 0 /\ entry.tricks[p] <= MaxTricks

\* hand.winningBid, hand.playerMeld[id], hand.playerScores[id] overwritten in place
EditedHand(hand, entry) ==
    [hand EXCEPT !.winningBid = entry.bid,
                 !.playerMeld = [p \in Players |-> entry.meld[p]],
                 !.playerScores = [p \in Players |-> entry.tricks[p] * 10]]

SaveEditedScores ==
    /\ currentGame
    /\ \E roundIdx \in 1..Len(hands) :
      \E entry \in EditEntries(hands[roundIdx].bidderId) :
        /\ EditFormValid(entry)
        /\ IF hands[roundIdx].thrownIn
           THEN UNCHANGED <<hands, scores>>
           ELSE LET hs == [hands EXCEPT ![roundIdx] = EditedHand(hands[roundIdx], entry)]
                IN /\ hands' = hs
                   /\ scores' = recalculateScores(scores, hs)
    /\ errors' = <<>>
    /\ UNCHANGED <<gameType, dealerIndex, pendingHand, teamAssignments, winner, pc, endState,
                   restored, handEntry, stats, setup>>

\* updatePlayerGameStats: won = (player.id === this.currentGame.winnerId)
won(p, id, ta) == PlayerId(p) = id

\* updatePlayerGameStats: every player of the game has one more game played,
\* and one more game won when `won`
updatePlayerGameStats(st, id, ta) ==
    [p \in DOMAIN st |->
        [gamesPlayed |-> st[p].gamesPlayed + 1,
         gamesWon |-> IF won(p, id, ta) THEN st[p].gamesWon + 1 ELSE st[p].gamesWon]]

\* confirmEndGame, once the confirm dialog is accepted.  historySaved is whether
\* storageService.addToGameHistory succeeds: StorageService.save throws when
\* localStorage rejects the write, and the handler's catch then skips the reset.
ConfirmEndGame ==
    /\ currentGame
    /\ Ends < MaxEnds
    /\ \E historySaved \in BOOLEAN :
        /\ LET w == winnerOfGame(scores, gameType, teamAssignments) IN endGame(w.playerId, w.name)
        /\ stats' = updatePlayerGameStats(stats, winnerId', teamAssignments)
        /\ IF historySaved
           THEN currentGame' = FALSE /\ pendingHand' = NoPending /\ errors' = <<>>
           ELSE /\ errors' = <<FailedToEndGame>>
                /\ UNCHANGED <<currentGame, pendingHand>>
    /\ UNCHANGED <<gameType, hands, scores, dealerIndex, teamAssignments, winner, pc, restored,
                   handEntry, setup>>

Next ==
    \/ NextToMeldPhase
    \/ NextToScorePhase
    \/ BackToBidPhase
    \/ BackToMeldPhase
    \/ SubmitHand
    \/ ThrowInHand
    \/ ShotTheMoon
    \/ SaveEditedScores
    \/ ConfirmEndGame

Spec == Init /\ [][Next]_vars

\* ------------------------------------------------------------------------
\* The Game model driven directly, the way its unit tests drive it: a fresh
\* game, hands or scores assigned to it, then one call of the model.
\* ------------------------------------------------------------------------
SeatTeams == [teamA |-> <<1, 3>>, teamB |-> <<2, 4>>]

\* a map with the entry v for the players in dom only
MapOf(dom, v) == [p \in dom |-> v]

MapDomains == {{}, {1}, {gameType}, Players}

\* a hand object as the tests write it out, created at instant 0
TestHand(thrownIn, bidderId, winningBid, playerMeld, playerScores) ==
    [handNumber |-> 1, dealerId |-> 1, dealerName |-> PlayerName(1), timestamp |-> 0,
     thrownIn |-> thrownIn, bidderId |-> bidderId,
     bidderName |-> IF bidderId = Null THEN NoId ELSE PlayerName(bidderId),
     winningBid |-> winningBid, playerMeld |-> playerMeld, playerScores |-> playerScores]

\* hand records as the tests build them: any flag, bid and bidder, partial maps,
\* a meld that is or is not a multiple of 10, some or all of the tricks
GameHands ==
    {TestHand(t, b, w, MapOf(dm, m), MapOf(ds, sv)) :
        t \in BOOLEAN, b \in {Null, 1, gameType}, w \in {Null, 0, getMinBid(gameType)},
        dm \in MapDomains, ds \in MapDomains,
        m \in {20, 15}, sv \in {TricksTaken * 10, MaxTricks * 10}}

\* an earlier hand in which everybody scored
EarlierHand == TestHand(FALSE, 1, 0, MapOf(Players, 20), MapOf(Players, 10))

\* the hands handed to addHand: a hand thrown in as throwInHand builds it, a
\* hand flagged thrown in that still carries data, and a played hand
AddedHands ==
    {throwIn(GameHand(getNextHandNumber(hands), getCurrentDealer(dealerIndex),
                      PlayerName(getCurrentDealer(dealerIndex)))),
     [EarlierHand EXCEPT !.thrownIn = TRUE, !.winningBid = getMinBid(gameType)],
     EarlierHand}

ScoreInputs ==
    {TargetScore(gameType) \div 2, TargetScore(gameType) - 10,
     TargetScore(gameType), TargetScore(gameType) + 10}

InitGame ==
    /\ gameType \in GameTypes
    /\ hands = <<>>
    /\ scores = [p \in 1..gameType |-> 0]
    /\ dealerIndex = 0
    /\ pendingHand = NoPending
    /\ teamAssignments \in (IF gameType = 4 THEN {NoTeams, SeatTeams} ELSE {NoTeams})
    /\ winner = NoWinner
    /\ pc = "idle"
    /\ endTime = Null
    /\ winnerId = NoId
    /\ winnerName = NoId
    /\ currentGame = TRUE
    /\ errors = <<>>
    /\ restored = NoHand
    /\ phase = "bid"
    /\ entered = ZeroEntry
    /\ stats = [p \in 1..gameType |-> NoStats]
    /\ tableSetup = SeatedTable
    /\ players = [p \in 1..gameType |-> p]

\* game.hands = [...], over scores left from before
SetHands ==
    /\ pc = "idle"
    /\ \E h \in GameHands, hs \in {<<>>, <<EarlierHand>>}, stale \in {0, 100} :
        /\ hands' = hs \o <<h>>
        /\ scores' = [p \in Players |-> stale]
        /\ pc' = "hands"
        /\ UNCHANGED <<gameType, handEntry, stats, setup, dealerIndex, pendingHand, teamAssignments, winner, endState, returned>>

\* game.recalculateScores()
RecalculateScores ==
    /\ pc = "hands"
    /\ scores' = recalculateScores(scores, hands)
    /\ pc' = "recalculated"
    /\ UNCHANGED <<gameType, handEntry, stats, setup, hands, dealerIndex, pendingHand, teamAssignments, winner, endState, returned>>

\* game.addHand(hand)
AddHand ==
    /\ pc = "recalculated"
    /\ \E h \in AddedHands :
        /\ addHand(h)
        /\ pc' = "added"
        /\ UNCHANGED <<gameType, handEntry, stats, setup, pendingHand, teamAssignments, winner, endState, returned>>

\* game.scores = [...]
SetScores ==
    /\ pc = "idle"
    /\ \E sc \in [Players -> ScoreInputs] :
        /\ scores' = sc
        /\ pc' = "scores"
        /\ UNCHANGED <<gameType, handEntry, stats, setup, hands, dealerIndex, pendingHand, teamAssignments, winner, endState, returned>>

\* game.checkForWinner()
CheckForWinner ==
    /\ pc = "scores"
    /\ winner' = checkForWinner(scores, gameType, teamAssignments, TargetScore(gameType))
    /\ pc' = "checked"
    /\ UNCHANGED <<gameType, handEntry, stats, setup, hands, scores, dealerIndex, pendingHand, teamAssignments, endState, returned>>

\* hand.throwIn() on the hand last set
ThrowInCall ==
    /\ pc = "hands"
    /\ hands' = [hands EXCEPT ![Len(hands)] = throwIn(hands[Len(hands)])]
    /\ pc' = "thrown"
    /\ UNCHANGED <<gameType, handEntry, stats, setup, scores, dealerIndex, pendingHand, teamAssignments, winner,
                   endState, returned>>

\* one of the setters called on a hand after throwIn()
SetterCall ==
    /\ pc = "thrown"
    /\ \E p \in {1, gameType} :
       \E h \in {setWinningBid(hands[Len(hands)], getMinBid(gameType), p, PlayerName(p)),
                 setPlayerMeld(hands[Len(hands)], p, 20),
                 setPlayerScore(hands[Len(hands)], p, TricksTaken * 10)} :
          hands' = [hands EXCEPT ![Len(hands)] = h]
    /\ pc' = "set"
    /\ UNCHANGED <<gameType, handEntry, stats, setup, scores, dealerIndex, pendingHand, teamAssignments, winner,
                   endState, returned>>

\* hand.validate(players) on the hand last set
Validate ==
    /\ pc = "hands"
    /\ errors' = validateErrors(hands[Len(hands)])
    /\ pc' = "validated"
    /\ UNCHANGED <<gameType, handEntry, stats, setup, hands, scores, dealerIndex, pendingHand, teamAssignments, winner,
                   endState, restored>>

\* GameHand.fromData(hand.toData()) on the hand last set
RoundTrip ==
    /\ pc = "hands"
    /\ restored' = fromData(toData(hands[Len(hands)]))
    /\ pc' = "restored"
    /\ UNCHANGED <<gameType, handEntry, stats, setup, hands, scores, dealerIndex, pendingHand, teamAssignments, winner,
                   endState, errors>>

\* the game object the variables describe, created at instant 0
ThisGame ==
    [id |-> 0, gameType |-> gameType, players |-> players,
     hands |-> hands, scores |-> scores, startTime |-> 0, endTime |-> endTime,
     targetScore |-> TargetScore(gameType), dealerIndex |-> dealerIndex,
     winnerId |-> winnerId, winnerName |-> winnerName, teamAssignments |-> teamAssignments]

\* game.endGame(winnerId, winnerName) after a hand was added
EndGameCall ==
    /\ pc = "added"
    /\ endGame(PlayerId(1), PlayerName(1))
    /\ pc' = "ended"
    /\ UNCHANGED <<gameType, handEntry, stats, setup, hands, scores, dealerIndex, pendingHand, teamAssignments, winner,
                   currentGame, returned>>

\* Game.fromData(game.toData()) on a game in progress or ended
GameRoundTrip ==
    /\ pc \in {"added", "ended"}
    /\ restored' = GameFromData(GameToData(ThisGame))
    /\ pc' = "reloaded"
    /\ UNCHANGED <<gameType, handEntry, stats, setup, hands, scores, dealerIndex, pendingHand, teamAssignments, winner,
                   endState, errors>>

NextGame ==
    \/ SetHands
    \/ RecalculateScores
    \/ AddHand
    \/ SetScores
    \/ CheckForWinner
    \/ ThrowInCall
    \/ SetterCall
    \/ Validate
    \/ RoundTrip
    \/ EndGameCall
    \/ GameRoundTrip

SpecGame == InitGame /\ [][NextGame]_vars

\* ------------------------------------------------------------------------
\* The setup of a game: game type, player selection, table arrangement and
\* startGame.  Players are the ids 1..RosterSize of the registered players.
\* ------------------------------------------------------------------------
Roster == 1..RosterSize

\* the ids of a set of players in the order of the player list
RECURSIVE InListOrder(_)
InListOrder(ids) ==
    IF ids = {} THEN <<>>
    ELSE LET first == CHOOSE p \in ids : \A q \in ids : p <= q
         IN <<first>> \o InListOrder(ids \ {first})

Range(seq) == {seq[i] : i \in DOMAIN seq}

\* new TableSetupController(), and no game yet
InitSetup ==
    /\ gameType = 2
    /\ tableSetup = [selected |-> {}, selectedPlayers |-> <<>>, gameType |-> 2,
                     tableArrangement |-> EmptyMap, shown |-> FALSE, startEnabled |-> FALSE]
    /\ players = <<>>
    /\ hands = <<>>
    /\ scores = <<>>
    /\ dealerIndex = 0
    /\ pendingHand = NoPending
    /\ teamAssignments = NoTeams
    /\ winner = NoWinner
    /\ pc = "setup"
    /\ endTime = Null
    /\ winnerId = NoId
    /\ winnerName = NoId
    /\ currentGame = FALSE
    /\ errors = <<>>
    /\ restored = NoHand
    /\ phase = "bid"
    /\ entered = ZeroEntry
    /\ stats = [p \in Roster |-> NoStats]

\* the game type select changes: the player list is rendered anew, nothing selected
ChangeGameType ==
    /\ pc = "setup"
    /\ ~tableSetup.shown
    /\ \E gt \in GameTypes \ {gameType} :
        /\ gameType' = gt
        /\ tableSetup' = [tableSetup EXCEPT !.gameType = gt, !.selected = {}]
    /\ UNCHANGED <<hands, scores, dealerIndex, pendingHand, teamAssignments, winner, pc,
                   endState, returned, handEntry, stats, players>>

\* the players whose item may be clicked next: the one after the last selected
\* player joins, the first selected player leaves
ToggleInputs(selected) ==
    IF selected = {} THEN {1}
    ELSE {p \in Roster : (p \in selected /\ \A q \in selected : p <= q)
                         \/ (p - 1 \in selected /\ \A q \in selected : q < p)}

\* checkPlayerSelection: the table setup learns the selection when it has the right size
checkPlayerSelection(ts, selected, gt) ==
    IF Cardinality(selected) = gt
    THEN [ts EXCEPT !.selected = selected, !.selectedPlayers = InListOrder(selected)]
    ELSE [ts EXCEPT !.selected = selected]

\* click on a player item: toggles it, then checkPlayerSelection
TogglePlayer ==
    /\ pc = "setup"
    /\ ~tableSetup.shown
    /\ \E p \in ToggleInputs(tableSetup.selected) :
        tableSetup' = checkPlayerSelection(tableSetup,
                          IF p \in tableSetup.selected THEN tableSetup.selected \ {p}
                          ELSE tableSetup.selected \cup {p},
                          gameType)
    /\ UNCHANGED <<gameType, hands, scores, dealerIndex, pendingHand, teamAssignments, winner, pc,
                   endState, returned, handEntry, stats, players>>

\* setupTable, then showTableSetup
SetupTable ==
    /\ pc = "setup"
    /\ ~tableSetup.shown
    /\ Cardinality(tableSetup.selected) = gameType
    /\ Len(tableSetup.selectedPlayers) = tableSetup.gameType
    /\ tableSetup' = [tableSetup EXCEPT !.shown = TRUE]
    /\ UNCHANGED <<gameType, hands, scores, dealerIndex, pendingHand, teamAssignments, winner, pc,
                   endState, returned, handEntry, stats, players>>

\* backToPlayerSelection
BackToPlayerSelection ==
    /\ pc = "setup"
    /\ tableSetup.shown
    /\ tableSetup' = [tableSetup EXCEPT !.shown = FALSE]
    /\ UNCHANGED <<gameType, hands, scores, dealerIndex, pendingHand, teamAssignments, winner, pc,
                   endState, returned, handEntry, stats, players>>

\* delete this.tableArrangement[position]
Remove(arrangement, positions) ==
    [position \in (DOMAIN arrangement) \ positions |-> arrangement[position]]

\* isTableSetupComplete: as many seats taken as the game type has players
isTableSetupComplete(ts) == Cardinality(DOMAIN ts.tableArrangement) = ts.gameType

\* assignPlayerToSeat: the player leaves any seat he has, takes this one, and
\* the start button is enabled once the table is complete
assignPlayerToSeat(ts, playerId, position) ==
    LET freed == Remove(ts.tableArrangement,
                        {pos \in DOMAIN ts.tableArrangement : ts.tableArrangement[pos] = playerId})
        seated == [ts EXCEPT !.tableArrangement = Put(freed, position, playerId)]
    IN [seated EXCEPT !.startEnabled = ts.startEnabled \/ isTableSetupComplete(seated)]

\* the selected players who have no seat, in list order
Unassigned(ts) ==
    SelectSeq(ts.selectedPlayers, LAMBDA id : id \notin Range(ts.tableArrangement))

\* selectSeat: the first unassigned player takes the seat; with nobody left to
\* seat, a click empties the seat
selectSeat(ts, position) ==
    IF Len(Unassigned(ts)) > 0 THEN assignPlayerToSeat(ts, Unassigned(ts)[1], position)
    ELSE IF position \in DOMAIN ts.tableArrangement
         THEN [ts EXCEPT !.tableArrangement = Remove(ts.tableArrangement, {position})]
         ELSE ts

\* click on one of the seats shown
SelectSeat ==
    /\ pc = "setup"
    /\ tableSetup.shown
    /\ \E position \in 0..(tableSetup.gameType - 1) :
        tableSetup' = selectSeat(tableSetup, position)
    /\ UNCHANGED <<gameType, hands, scores, dealerIndex, pendingHand, teamAssignments, winner, pc,
                   endState, returned, handEntry, stats, players>>

\* drop of an available player on a seat: the last of the unassigned players is dragged
DropOnSeat ==
    /\ pc = "setup"
    /\ tableSetup.shown
    /\ Len(Unassigned(tableSetup)) > 1
    /\ \E position \in 0..(tableSetup.gameType - 1) :
        tableSetup' = assignPlayerToSeat(tableSetup,
                          Unassigned(tableSetup)[Len(Unassigned(tableSetup))], position)
    /\ UNCHANGED <<gameType, hands, scores, dealerIndex, pendingHand, teamAssignments, winner, pc,
                   endState, returned, handEntry, stats, players>>

\* getArrangedPlayers from seat `position` on: the selected player of each seat
RECURSIVE getArrangedPlayers(_, _)
getArrangedPlayers(ts, position) ==
    IF position >= ts.gameType THEN <<>>
    ELSE (IF position \in DOMAIN ts.tableArrangement
             /\ ts.tableArrangement[position] \in Range(ts.selectedPlayers)
          THEN <<ts.tableArrangement[position]>> ELSE <<>>)
         \o getArrangedPlayers(ts, position + 1)

\* the selected players on the seats of the given parity, from seat `position` on
RECURSIVE TeamOf(_, _, _)
TeamOf(ts, parity, position) ==
    IF position >= 4 THEN <<>>
    ELSE (IF position % 2 = parity
             /\ position \in DOMAIN ts.tableArrangement
             /\ ts.tableArrangement[position] \in Range(ts.selectedPlayers)
          THEN <<ts.tableArrangement[position]>> ELSE <<>>)
         \o TeamOf(ts, parity, position + 1)

\* getTeamAssignments: seats 0 and 2 are team A, seats 1 and 3 team B
getTeamAssignments(ts) ==
    IF ts.gameType # 4 THEN NoTeams
    ELSE [teamA |-> TeamOf(ts, 0, 0), teamB |-> TeamOf(ts, 1, 0)]

\* startGame: new Game(arrangedPlayers, gameType), with teams in a 4-player game
StartGame ==
    /\ pc = "setup"
    /\ tableSetup.shown
    /\ tableSetup.startEnabled
    /\ isTableSetupComplete(tableSetup)
    /\ players' = getArrangedPlayers(tableSetup, 0)
    /\ scores' = [p \in 1..Len(players') |-> 0]
    /\ hands' = <<>>
    /\ dealerIndex' = 0
    /\ teamAssignments' = IF gameType = 4 THEN getTeamAssignments(tableSetup) ELSE NoTeams
    /\ currentGame' = TRUE
    /\ pc' = "started"
    /\ UNCHANGED <<gameType, pendingHand, winner, endTime, winnerId, winnerName, returned,
                   handEntry, stats, tableSetup>>

NextSetup ==
    \/ ChangeGameType
    \/ TogglePlayer
    \/ SetupTable
    \/ BackToPlayerSelection
    \/ SelectSeat
    \/ DropOnSeat
    \/ StartGame

SpecSetup == InitSetup /\ [][NextSetup]_vars

\* ------------------------------------------------------------------------
\* The scoring rules as the specification states them, hand by hand.
\* ------------------------------------------------------------------------
HandMeld(hand, p) == IF p \in DOMAIN hand.playerMeld THEN hand.playerMeld[p] ELSE 0

HandTricks(hand, p) == IF p \in DOMAIN hand.playerScores THEN hand.playerScores[p] ELSE 0

HasBid(hand) == hand.bidderId # Null /\ hand.winningBid # Null

BidderIsSet(hand) ==
    /\ HasBid(hand)
    /\ HandMeld(hand, hand.bidderId) + HandTricks(hand, hand.bidderId) < hand.winningBid

BidderMadeBid(hand) ==
    /\ HasBid(hand)
    /\ HandMeld(hand, hand.bidderId) + HandTricks(hand, hand.bidderId) >= hand.winningBid

\* what one hand adds to the total of player p
Contribution(hand, p) ==
    IF hand.thrownIn THEN 0
    ELSE IF BidderIsSet(hand) /\ p = hand.bidderId THEN 0 - hand.winningBid
    ELSE HandMeld(hand, p) + HandTricks(hand, p)

RECURSIVE Replay(_, _)
Replay(hs, p) == IF hs = <<>> THEN 0 ELSE Contribution(Head(hs), p) + Replay(Tail(hs), p)

\* the hands list without its k-th hand
Without(hs, k) == SubSeq(hs, 1, k - 1) \o SubSeq(hs, k + 1, Len(hs))

IndividualMode == ~(gameType = 4 /\ teamAssignments # NoTeams)

Target == TargetScore(gameType)

MaxScore == CHOOSE m \in {scores[p] : p \in Players} : \A q \in Players : scores[q] <= m

TiedAtMax == {p \in Players : scores[p] = MaxScore}

\* C1: after any sequence of finalized hands and edits of past hands, the cached
\* scores equal the replay of the whole hands list from zero.
C1_ScoresAreReplay == \A p \in Players : scores[p] = Replay(hands, p)

C1_Witness ==
    /\ Len(hands) = 2
    /\ hands[1].winningBid = 0
    /\ ~hands[2].thrownIn /\ BidderIsSet(hands[2])
    /\ \E p \in Players : scores[p] > 0

\* C2: a played hand in which the bidder is set takes exactly the bid from the
\* bidder's total and gives every other player his own meld + trick score.
C2_BidderSet ==
    pc = "recalculated" =>
        \A k \in 1..Len(hands) :
            (~hands[k].thrownIn /\ BidderIsSet(hands[k])) =>
                \A p \in Players :
                    scores[p] - Replay(Without(hands, k), p) =
                        IF p = hands[k].bidderId
                        THEN 0 - hands[k].winningBid
                        ELSE HandMeld(hands[k], p) + HandTricks(hands[k], p)

C2_Witness ==
    /\ pc = "recalculated"
    /\ Len(hands) = 2
    /\ BidderIsSet(hands[2]) /\ ~hands[2].thrownIn
    /\ HandMeld(hands[2], hands[2].bidderId) > 0
    /\ \E p \in Players : p \notin DOMAIN hands[2].playerMeld /\ p \in DOMAIN hands[2].playerScores

\* C3: a played hand in which the bidder made the bid gives every player, the
\* bidder included, exactly his own meld + trick score; the bid is not added.
C3_BidderMade ==
    pc = "recalculated" =>
        \A k \in 1..Len(hands) :
            (~hands[k].thrownIn /\ BidderMadeBid(hands[k])) =>
                \A p \in Players :
                    scores[p] - Replay(Without(hands, k), p) =
                        HandMeld(hands[k], p) + HandTricks(hands[k], p)

C3_Witness ==
    /\ pc = "recalculated"
    /\ Len(hands) = 2
    /\ ~hands[2].thrownIn /\ BidderMadeBid(hands[2]) /\ hands[2].winningBid > 0
    /\ \E p \in Players : p \notin DOMAIN hands[2].playerMeld

\* C4: isBidderSet is true exactly when a bidder and a bid exist and the
\* bidder's meld + trick score is strictly below the bid.
C4_IsBidderSet ==
    \A k \in 1..Len(hands) :
        isBidderSet(hands[k]) <=>
            /\ hands[k].bidderId # Null
            /\ hands[k].winningBid # Null
            /\ HandMeld(hands[k], hands[k].bidderId) + HandTricks(hands[k], hands[k].bidderId)
                  < hands[k].winningBid

C4_Witness ==
    /\ pc = "recalculated"
    /\ Len(hands) = 1
    /\ HasBid(hands[1]) /\ ~hands[1].thrownIn
    /\ HandMeld(hands[1], hands[1].bidderId) + HandTricks(hands[1], hands[1].bidderId)
          = hands[1].winningBid
    /\ hands[1].winningBid > 0
    /\ scores[hands[1].bidderId] = hands[1].winningBid

\* C5: adding a thrown-in hand, whatever data it carries, changes no score and
\* advances the dealer by exactly one position.
C5_ThrownInAdded ==
    [][(pc' = "added" /\ hands'[Len(hands')].thrownIn) =>
           /\ scores' = scores
           /\ dealerIndex' = (dealerIndex + 1) % gameType]_vars

C5_Witness ==
    /\ pc = "added"
    /\ hands[Len(hands)].thrownIn
    /\ hands[Len(hands)].playerMeld # EmptyMap
    /\ \E p \in Players : scores[p] # 0
    /\ dealerIndex = 1

\* C6: the dealer advances once per hand added: dealerIndex is the number of
\* hands modulo the number of players.
C6_DealerRotation == dealerIndex = Len(hands) % gameType

C6_Witness ==
    /\ gameType = 2 /\ Len(hands) = 2 /\ dealerIndex = 0
    /\ hands[1].thrownIn /\ ~hands[2].thrownIn

\* C7: the k-th hand of the session has handNumber k, across thrown-in hands
\* and after edits of past hands.
C7_HandNumbers == \A k \in 1..Len(hands) : hands[k].handNumber = k

C7_Witness ==
    /\ Len(hands) = 2
    /\ hands[1].thrownIn
    /\ hands[2].winningBid = 0

\* C8: in individual mode checkForWinner returns nothing exactly when nobody
\* has reached the target, and otherwise a player at or above the target whose
\* score is the maximum over all players.
C8_IndividualWinner ==
    (pc = "checked" /\ IndividualMode) =>
        /\ (winner = NoWinner) <=> (\A p \in Players : scores[p] < Target)
        /\ winner # NoWinner =>
              /\ winner.type = "player"
              /\ winner.playerId \in Players
              /\ winner.score = scores[winner.playerId]
              /\ winner.score >= Target
              /\ \A q \in Players : scores[q] <= winner.score

C8_Witness ==
    /\ pc = "checked" /\ IndividualMode
    /\ scores[1] >= Target
    /\ winner # NoWinner
    /\ winner.playerId # 1
    /\ winner.score > scores[1]

TeamSum(team) == scores[team[1]] + scores[team[2]]

C11_NoAutomaticEnd ==
    [][/\ (Len(hands') > Len(hands) => UNCHANGED <<endTime, winnerId, winnerName>>)
       /\ (endTime = Null => winnerId = NoId /\ winnerName = NoId)]_vars

\* a second hand was added and scored although the first had produced a winner,
\* and the session is still open
C11_Witness ==
    /\ Len(hands) = 2
    /\ ~hands[2].thrownIn
    /\ endTime = Null /\ winnerId = NoId /\ winnerName = NoId
    /\ LET first == recalculateScores(scores, <<hands[1]>>) IN
        /\ checkForWinner(first, gameType, teamAssignments, TargetScore(gameType)) # NoWinner
        /\ scores # first

\* C12: ending a session is irreversible.  Once endTime is stamped, no step
\* changes endTime, winnerId or winnerName, and no step adds a hand.
C12_EndIsFinal ==
    [][endTime # Null =>
          /\ UNCHANGED <<endTime, winnerId, winnerName>>
          /\ Len(hands') = Len(hands)]_vars

\* a hand as throwIn() leaves it
ThrownInAndEmpty(hand) ==
    /\ hand.thrownIn
    /\ hand.winningBid = Null /\ hand.bidderId = Null /\ hand.bidderName = NoId
    /\ hand.playerMeld = EmptyMap /\ hand.playerScores = EmptyMap

\* C13: after throwIn() a hand never acquires bid data.  Under every later
\* operation on it (the setters, the edit of a past hand) thrownIn stays true,
\* winningBid, bidderId and bidderName stay null and both maps stay empty.
C13_ThrownInStaysEmpty ==
    [][\A k \in 1..Len(hands) :
          (k <= Len(hands') /\ ThrownInAndEmpty(hands[k])) => ThrownInAndEmpty(hands'[k])]_vars

\* C14: after a past non-thrown-in hand is edited and the scores are
\* recalculated, the scores are the from-zero replay of the edited history: only
\* the edited hand differs, and each total moves by exactly the change in that
\* hand's contribution to the player.
C14_EditIsReplayed ==
    [][(Len(hands') = Len(hands) /\ hands' # hands) =>
          \E k \in 1..Len(hands) :
              /\ ~hands[k].thrownIn
              /\ \A j \in 1..Len(hands) : j # k => hands'[j] = hands[j]
              /\ \A p \in Players :
                  /\ scores'[p] = Replay(hands', p)
                  /\ scores'[p] - scores[p]
                        = Contribution(hands'[k], p) - Contribution(hands[k], p)]_vars

\* the first of two played hands carries the bid 0 that only an edit leaves
\* behind, and the scores are the replay of the edited history
C14_Witness ==
    /\ Len(hands) = 2
    /\ ~hands[1].thrownIn /\ ~hands[2].thrownIn
    /\ hands[1].winningBid = 0
    /\ \A p \in Players : scores[p] = Replay(hands, p)
    /\ \E p \in Players : Contribution(hands[2], p) # 0

\* the hand last set has a bidder and a bid but no entry for the bidder
BidderEntriesMissing(hand) ==
    /\ ~hand.thrownIn
    /\ hand.bidderId # Null /\ hand.winningBid # Null
    /\ hand.bidderId \notin DOMAIN hand.playerMeld
    /\ hand.bidderId \notin DOMAIN hand.playerScores

\* the bidder's total from the hands before the last one
BidderTotalBefore == Replay(SubSeq(hands, 1, Len(hands) - 1), hands[Len(hands)].bidderId)

\* C15 as stated: a hand with a bidder and a bid but no meld or trick-score entry
\* for the bidder is scored as "bidder made bid", so the bidder's total is what it
\* was before the hand (no set penalty).
C15_MissingEntriesNoPenalty ==
    (pc = "recalculated" /\ BidderEntriesMissing(hands[Len(hands)]))
        => scores[hands[Len(hands)].bidderId] = BidderTotalBefore

\* C15 as amended: for such a hand with a positive bid, recalculateScores counts
\* the missing entries as 0, so the bidder is set and exactly winningBid is
\* subtracted from the bidder's total.
C15_MissingEntriesSet ==
    (/\ pc = "recalculated"
     /\ BidderEntriesMissing(hands[Len(hands)])
     /\ hands[Len(hands)].winningBid > 0)
        => scores[hands[Len(hands)].bidderId]
             = BidderTotalBefore - hands[Len(hands)].winningBid

\* such a hand was scored after an earlier hand and the bidder's total fell
C15_Witness ==
    /\ pc = "recalculated"
    /\ Len(hands) = 2
    /\ BidderEntriesMissing(hands[2])
    /\ hands[2].winningBid > 0
    /\ scores[hands[2].bidderId] < BidderTotalBefore
    /\ \E p \in Players : p # hands[2].bidderId /\ p \in DOMAIN hands[2].playerMeld

\* the players whose recorded meld is not a multiple of 10
OffTensMeld(hand) == {p \in DOMAIN hand.playerMeld : hand.playerMeld[p] % 10 # 0}

\* the sum over the players of the recorded trick scores
RECURSIVE TrickScoreFrom(_, _)
TrickScoreFrom(hand, p) ==
    IF p > gameType THEN 0 ELSE HandTricks(hand, p) + TrickScoreFrom(hand, p + 1)

\* more than 25 tricks: the trick scores sum to more than 250
TooManyTricks(hand) == TrickScoreFrom(hand, 1) > 250

\* how often a message occurs among the errors
Occurrences(msg) == Cardinality({i \in 1..Len(errors) : errors[i] = msg})

\* what validate reported for the hand last set
ValidateReport ==
    LET hand == hands[Len(hands)] IN
    /\ (errors = <<>>) <=> (OffTensMeld(hand) = {} /\ ~TooManyTricks(hand))
    /\ Len(errors) = Cardinality(OffTensMeld(hand)) + (IF TooManyTricks(hand) THEN 1 ELSE 0)
    /\ \A p \in Players :
          Occurrences(MeldMessage(p)) = (IF p \in OffTensMeld(hand) THEN 1 ELSE 0)
    /\ Occurrences(TricksMessage) = (IF TooManyTricks(hand) THEN 1 ELSE 0)

\* C16: validate reports no errors exactly when every recorded meld is a
\* multiple of 10 and the tricks total at most 25; otherwise it reports one
\* message per player whose meld is off the tens, plus one message when the
\* tricks exceed 25; and the call leaves the hand as it was.
C16_ValidateReports ==
    [][pc' = "validated" => (hands' = hands /\ ValidateReport')]_vars

\* validate reported two melds off the tens and too many tricks at once
C16_Witness ==
    /\ pc = "validated"
    /\ Cardinality(OffTensMeld(hands[Len(hands)])) >= 2
    /\ TooManyTricks(hands[Len(hands)])
    /\ Len(errors) >= 3

\* C17: every meld value recorded in a hand of the history is divisible by
\* 10, whichever of the submit, shoot-the-moon and edit flows recorded it.
C17_MeldDivisible ==
    \A k \in 1..Len(hands) :
        \A p \in DOMAIN hands[k].playerMeld : hands[k].playerMeld[p] % 10 = 0

\* C18: in every hand of the history that was not thrown in, the trick
\* scores divided by 10 sum to at most 25, whichever of the submit,
\* shoot-the-moon and edit flows recorded them.
C18_TricksWithinLimit ==
    \A k \in 1..Len(hands) :
        ~hands[k].thrownIn =>
            SumMap(hands[k].playerScores, DOMAIN hands[k].playerScores) <= MaxTricks * 10

\* C19: the winning bid of every hand of the history is null when the hand
\* was thrown in, and otherwise a multiple of 10 no smaller than the
\* minimum bid of the game type, edits included.
C19_BidNullOrValid ==
    \A k \in 1..Len(hands) :
        IF hands[k].thrownIn
        THEN hands[k].winningBid = Null
        ELSE /\ hands[k].winningBid % 10 = 0
             /\ hands[k].winningBid >= getMinBid(gameType)

\* C20: GameHand.fromData(hand.toData()) equals hand field for field, for
\* every hand, thrown-in hands included.
C20_RoundTrip ==
    pc = "restored" =>
        LET hand == hands[Len(hands)] IN
        /\ DOMAIN restored = DOMAIN hand
        /\ \A field \in DOMAIN hand : restored[field] = hand[field]

\* a thrown-in hand, older than the moment it is restored, came back
C20_Witness ==
    /\ pc = "restored"
    /\ hands[Len(hands)].thrownIn
    /\ hands[Len(hands)].winningBid = Null
    /\ hands[Len(hands)].playerMeld = EmptyMap
    /\ hands[Len(hands)].timestamp # Clock
    /\ restored.thrownIn

\* the data-model fields of a game
GameFields ==
    {"gameType", "players", "teamAssignments", "targetScore", "dealerIndex", "hands",
     "scores", "winnerId", "winnerName", "endTime"}

\* C21: Game.fromData(game.toData()) equals the original game in gameType,
\* players, teamAssignments, targetScore, dealerIndex, hands, scores,
\* winnerId, winnerName and endTime.
C21_GameRoundTrip ==
    pc = "reloaded" => \A field \in GameFields : restored[field] = ThisGame[field]

\* C22: every game started through startGame has a players list of exactly
\* gameType distinct players, whatever selections, game-type changes and
\* seat assignments came before.
C22_PlayersMatchGameType ==
    pc = "started" =>
        /\ Len(players) = gameType
        /\ \A i, j \in DOMAIN players : players[i] = players[j] => i = j

\* C23: in every started 4-player game the team assignments are seats 0 and
\* 2 against seats 1 and 3, two disjoint teams of two that cover the four
\* players; 2- and 3-player games have none.
C23_TeamsAlternate ==
    pc = "started" =>
        IF gameType = 4
        THEN /\ Len(teamAssignments.teamA) = 2 /\ Len(teamAssignments.teamB) = 2
             /\ Range(teamAssignments.teamA) \cap Range(teamAssignments.teamB) = {}
             /\ Range(teamAssignments.teamA) \cup Range(teamAssignments.teamB) = Range(players)
             /\ Len(players) = 4
             /\ teamAssignments.teamA = <<players[1], players[3]>>
             /\ teamAssignments.teamB = <<players[2], players[4]>>
        ELSE teamAssignments = NoTeams

\* the last hand of the history
LastHand == hands[Len(hands)]

\* this step appended a hand from the tricks card, and not by shooting the moon
SubmitStep ==
    /\ phase = "score"
    /\ Len(hands') = Len(hands) + 1
    /\ LastHand'.playerScores[pendingHand.bidderId] # MoonScore

\* the meld safety rule as stated: a non-bidder keeps his meld with a trick
\* taken, or with a meld of 10 or 20 attested as nines of trump only
SafeMeld(p, bidderId, declared, tricks, ninesOnly) ==
    IF p = bidderId THEN declared
    ELSE IF tricks >= 1 \/ (declared \in {10, 20} /\ ninesOnly) THEN declared
    ELSE 0

\* C24: when submitHand finalizes a hand, a non-bidder's recorded meld is the
\* declared meld if he took a trick or declared exactly 10 or 20 with the
\* nines-only flag set, and 0 otherwise; the bidder's is the declared meld.
C24_MeldSafety ==
    [][SubmitStep =>
        \A p \in Players :
            LastHand'.playerMeld[p] =
                SafeMeld(p, pendingHand.bidderId, entered.meld[p],
                         LastHand'.playerScores[p] \div 10, p \in entered.ninesOnly)]_vars

\* a submitted hand in which a non-bidder without tricks kept a meld of 20
C24_Witness ==
    /\ Len(hands) = 1
    /\ LastHand.winningBid = (MaxTricks + 3) * 10
    /\ LastHand.playerScores[LastHand.bidderId] # MoonScore
    /\ \E p \in Players \ {LastHand.bidderId} :
        LastHand.playerScores[p] = 0 /\ LastHand.playerMeld[p] = 20

\* this step appended a hand by shooting the moon
MoonStep ==
    /\ phase = "score"
    /\ Len(hands') = Len(hands) + 1
    /\ LastHand'.playerScores[pendingHand.bidderId] = MoonScore

\* C25: shotTheMoon appends a hand with meld 0 and trick score 500 for the
\* bidder, trick score 0 and the declared meld for everybody else, and the
\* rescoring adds exactly 500 to the bidder's total and the declared meld to
\* each other total, for every bid that can be pending.
C25_MoonIsFixed500 ==
    [][MoonStep =>
        \A p \in Players :
            IF p = pendingHand.bidderId
            THEN /\ LastHand'.playerMeld[p] = 0
                 /\ LastHand'.playerScores[p] = MoonScore
                 /\ scores'[p] = scores[p] + MoonScore
            ELSE /\ LastHand'.playerMeld[p] = entered.meld[p]
                 /\ LastHand'.playerScores[p] = 0
                 /\ scores'[p] = scores[p] + entered.meld[p]]_vars

\* this step was a submitHand that rejected its input
RejectStep == Len(errors') > 0 /\ errors' # <<FailedToEndGame>>

\* C26: when submitHand rejects its input, no hand is appended and hands,
\* scores, dealerIndex and the pending bid are unchanged.
C26_RejectionBlocks ==
    [][RejectStep => UNCHANGED <<hands, scores, dealerIndex, pendingHand>>]_vars

\* a submission was rejected for its total of tricks, the pending bid still there
C26_Witness ==
    /\ errors = <<TotalTricksError>>
    /\ ~ValidationTotalTricks(entered.tricks)
    /\ pendingHand # NoPending
    /\ phase = "score"

\* every field that breaks a rule of Validation.meld or Validation.tricks, from seat p on
RECURSIVE FieldViolations(_, _, _)
FieldViolations(p, meld, tricks) ==
    IF p > gameType THEN <<>>
    ELSE (IF ValidationMeld(meld[p]) THEN <<>> ELSE <<MeldError(p, meld[p])>>)
         \o (IF ValidationTricks(tricks[p]) THEN <<>> ELSE <<TricksError(p, tricks[p])>>)
         \o FieldViolations(p + 1, meld, tricks)

\* every rule the entered hand breaks
Violations(meld, tricks) ==
    FieldViolations(1, meld, tricks)
    \o (IF ValidationTotalTricks(tricks) THEN <<>> ELSE <<TotalTricksError>>)

\* the last handler call was a submitHand that rejected the fields as they stand
Rejected == Len(errors) > 0 /\ errors # <<FailedToEndGame>>

\* C27: when a submitted hand breaks several validation rules at once, the
\* rejection reports every one of them, not just the first one found.
C27_EveryViolationReported ==
    Rejected =>
        \A i \in DOMAIN Violations(entered.meld, entered.tricks) :
            \E j \in DOMAIN errors : errors[j] = Violations(entered.meld, entered.tricks)[i]

\* this step went back one card: from the meld card to the bid card, or from
\* the tricks card to the meld card
BackStep ==
    \/ phase = "meld" /\ phase' = "bid"
    \/ phase = "score" /\ phase' = "meld"

\* C28: backToBidPhase and backToMeldPhase are pure navigation: they change
\* no finalized hand, no score and not the dealer, and append nothing.
C28_BackIsNavigation ==
    [][BackStep => UNCHANGED <<hands, scores, dealerIndex>>]_vars

\* back on the bid card with the bid still pending, one hand already recorded
C28_Witness ==
    /\ phase = "bid"
    /\ pendingHand # NoPending
    /\ Len(hands) = 1
    /\ dealerIndex = 1

EndStep == endTime' # endTime

\* the player is the recorded winner, or a member of the recorded winning team
OnWinningSide(p, id, ta) ==
    \/ id = PlayerId(p)
    \/ id = TeamId("teamA") /\ p \in Range(ta.teamA)
    \/ id = TeamId("teamB") /\ p \in Range(ta.teamB)

\* C30: when confirmEndGame ends a game, every player's gamesPlayed grows
\* by exactly 1, and gamesWon grows by exactly 1 for the players on the
\* winning side (the winning player, or both members of the winning team)
\* and for nobody else.
C30_StatsFollowWinner ==
    [][EndStep =>
        \A p \in Players :
            /\ stats'[p].gamesPlayed = stats[p].gamesPlayed + 1
            /\ stats'[p].gamesWon =
                 stats[p].gamesWon + (IF OnWinningSide(p, winnerId', teamAssignments) THEN 1 ELSE 0)]_vars


====
